---- MODULE Spec2Model ----
(***************************************************************************)
(* mkube: the directory scanner (src/lib.rs, LibraryStream), the shared    *)
(* connection pool and the message/effect dispatcher (src/main.rs, run).   *)
(*                                                                         *)
(* SpecScan drives one LibraryStream over a bounded directory tree.        *)
(***************************************************************************)
EXTENDS Integers, Sequences, FiniteSets, TLC

\* ------------------------------------------------------------------------
\* Bounds of the directory trees handed to the scanner.
MaxSub == 2        \* subdirectories of the scan root
MaxLevel == 2      \* deepest directory level below the root
MaxDepthArg == 2   \* largest depth limit handed to a scan

\* ------------------------------------------------------------------------
\* Directory trees.  A directory is named by its path below the scan root,
\* a sequence of child numbers; the root is <<>>.  The first subdirectory of
\* the root carries a chain of nested subdirectories.
Chain(n) == [i \in 1..n |-> 1]

AllDirs == { <<>> } \cup { <<i>> : i \in 1..MaxSub }
              \cup { Chain(n) : n \in 2..MaxLevel }

Parent(p) == SubSeq(p, 1, Len(p) - 1)

IsPrefix(p, q) == Len(p) <= Len(q) /\ SubSeq(q, 1, Len(p)) = p

\* What a directory holds:
\*   "video"   a video file, a text file and a file without extension
\*   "plain"   a text file and a symlink
\*   "nomedia" a .nomedia marker and a video file
\*   "fail"    the backend cannot list it (missing, permission, ...)
\*   "dots"    a video file, listed by a backend that also lists the
\*             entries `.` and `..` of the directory
Kinds == {"video", "plain", "nomedia", "fail", "dots"}

\* The path of an entry is the path of its directory with the name of the
\* entry pushed onto it.  The names `.` and `..` are the components CurDir
\* and ParentDir; the paths start with the path of the library, which is
\* not empty.
CurDir == 0
ParentDir == -1

\* Path::components: a `.` that is not the first component of the path is
\* normalised away.
Components(q) == SelectSeq(q, LAMBDA c : c # CurDir)

\* Path::ends_with compares whole components, from the end.
EndsWith(q, c) ==
    LET cs == Components(q)
    IN  cs # <<>> /\ cs[Len(cs)] = c

\* The directory of the tree a path leads to.
Resolve(q) == Components(q)

\* The shapes a tree can take: closed under parent and under elder sibling.
Shapes == { S \in SUBSET AllDirs :
              /\ <<>> \in S
              /\ \A p \in S : p # <<>> =>
                    /\ Parent(p) \in S
                    /\ (p[Len(p)] > 1 =>
                          Append(Parent(p), p[Len(p)] - 1) \in S) }

Trees == UNION { [S -> Kinds] : S \in Shapes }

\* src/lib.rs:33
VIDEO_EXTENSIONS ==
    {"mp4", "mov", "flv", "mkv", "webm", "m4v", "avi", "iso", "wmw", "mpg"}

\* The extension of a file name ("" when it has none).
Extension(name) ==
    CASE name = "v.mkv" -> "mkv"
      [] name = "o.txt" -> "txt"
      [] OTHER -> ""

FileEntry(p, name) == [path |-> [dir |-> p, name |-> name], type |-> "file"]
LinkEntry(p, name) == [path |-> [dir |-> p, name |-> name], type |-> "symlink"]
DirEntry(q) == [path |-> q, type |-> "dir"]

RECURSIVE SubDirEntries(_, _, _)
SubDirEntries(tree, p, i) ==
    IF Append(Resolve(p), i) \in DOMAIN tree
    THEN <<DirEntry(Append(p, i))>> \o SubDirEntries(tree, p, i + 1)
    ELSE <<>>

\* list_dir of the backend: the entries of directory p.
ListDir(tree, p) ==
    (CASE tree[Resolve(p)] = "video" ->
            <<FileEntry(p, "v.mkv"), FileEntry(p, "o.txt"), FileEntry(p, "README")>>
       [] tree[Resolve(p)] = "nomedia" ->
            <<FileEntry(p, ".nomedia"), FileEntry(p, "v.mkv")>>
       [] tree[Resolve(p)] = "dots" ->
            <<DirEntry(Append(p, CurDir)), DirEntry(Append(p, ParentDir)),
              FileEntry(p, "v.mkv")>>
       [] OTHER ->
            <<FileEntry(p, "o.txt"), LinkEntry(p, "l")>>)
    \o SubDirEntries(tree, p, 1)

\* A backend that never reports the marker.
NoMediaExists_ignored(tree, p) == FALSE

\* exists(path/.nomedia) of the backend.
NoMediaExists(tree, p) == tree[Resolve(p)] = "nomedia"

\* ------------------------------------------------------------------------
\* The filter of src/lib.rs:376-403 with the depth test of src/lib.rs:396
\* left out.
RECURSIVE FilterEntries_nodepth(_, _)
FilterEntries_nodepth(dir, depth) ==
    IF dir = <<>> THEN <<>>
    ELSE LET entry == Head(dir)
             rest == FilterEntries_nodepth(Tail(dir), depth)
         IN  IF entry.type = "file"
             THEN IF /\ Extension(entry.path.name) # ""
                     /\ Extension(entry.path.name) \in VIDEO_EXTENSIONS
                  THEN <<[path |-> entry.path, is_dir |-> FALSE]>> \o rest
                  ELSE rest
             ELSE IF entry.type = "dir"
             THEN IF EndsWith(entry.path, CurDir) \/ EndsWith(entry.path, ParentDir)
                  THEN rest
                  ELSE <<[path |-> entry.path, is_dir |-> TRUE]>> \o rest
             ELSE rest

\* The filter of the listing, src/lib.rs:376-403: video files by extension,
\* and directories while the depth allows.
RECURSIVE FilterEntries(_, _)
FilterEntries(dir, depth) ==
    IF dir = <<>> THEN <<>>
    ELSE LET entry == Head(dir)
             rest == FilterEntries(Tail(dir), depth)
         IN  IF entry.type = "file"
             THEN IF /\ Extension(entry.path.name) # ""
                     /\ Extension(entry.path.name) \in VIDEO_EXTENSIONS
                  THEN <<[path |-> entry.path, is_dir |-> FALSE]>> \o rest
                  ELSE rest
             ELSE IF entry.type = "dir"
             THEN IF EndsWith(entry.path, CurDir) \/ EndsWith(entry.path, ParentDir)
                  THEN rest
                  ELSE IF depth > 0
                  THEN <<[path |-> entry.path, is_dir |-> TRUE]>> \o rest
                  ELSE rest
             ELSE rest

\* LibraryStream::search, src/lib.rs:337-404.  occ is whether the pool slot
\* of the scan is occupied when the lock is taken.
Search(tree, occ, p, depth) ==
    IF ~occ THEN [ok |-> FALSE, paths |-> <<>>]
    ELSE IF tree[Resolve(p)] = "fail" THEN [ok |-> FALSE, paths |-> <<>>]
    ELSE IF NoMediaExists(tree, p) THEN [ok |-> TRUE, paths |-> <<>>]
    ELSE [ok |-> TRUE, paths |-> FilterEntries(ListDir(tree, p), depth)]

\* ------------------------------------------------------------------------
\* LibraryStream, src/lib.rs:314-335.  A stream is a function from the
\* directories that have a node to the node; sub_streams holds the
\* directories of the child nodes, in the order of the vector.
\* search_future: "Some" (not finished), "Done" (finished with an error and
\* still stored), "None".
NewNode(depth) ==
    [depth |-> depth, sub_streams |-> <<>>, found_path |-> <<>>,
     search_future |-> "Some"]

NewStream(depth) == [p \in {<<>>} |-> NewNode(depth)]

\* Dropping a child node drops the nodes below it.
DropSubtree(nodes, q) ==
    [p \in { r \in DOMAIN nodes : ~IsPrefix(q, r) } |-> nodes[p]]

AddNode(nodes, q, node) ==
    [p \in DOMAIN nodes \cup {q} |-> IF p = q THEN node ELSE nodes[p]]

\* Vec::swap_remove
SwapRemove(v, i) ==
    LET last == Len(v)
        w == [v EXCEPT ![i] = v[last]]
    IN  SubSeq(w, 1, last - 1)

\* A child scan that keeps the depth of its parent.
ChildDepth_same(depth) == depth

\* src/lib.rs:421-427: the depth handed to a child scan.
ChildDepth(depth) == depth - 1

\* src/lib.rs:417-429: the result of a finished search is split into the
\* found files and one child stream per subdirectory.
RECURSIVE Distribute(_, _, _)
Distribute(nodes, p, paths) ==
    IF paths = <<>> THEN nodes
    ELSE LET e == Head(paths)
             n == nodes[p]
         IN  IF ~e.is_dir
             THEN Distribute(
                    [nodes EXCEPT ![p].found_path = Append(n.found_path, e.path)],
                    p, Tail(paths))
             ELSE Distribute(
                    AddNode([nodes EXCEPT ![p].sub_streams =
                                            Append(n.sub_streams, e.path)],
                            e.path, NewNode(ChildDepth(n.depth))),
                    p, Tail(paths))

Pending == [tag |-> "Pending"]
ReadyNone == [tag |-> "None"]
ReadyErr == [tag |-> "Err"]
\* The two panics of poll_next: the poll of a search future that has
\* returned (src/lib.rs:412-413), and the unwrap of a child index that is
\* gone (src/lib.rs:441).
Panic == [tag |-> "Panic", at |-> "search_future"]
IndexPanic == [tag |-> "Panic", at |-> "sub_streams"]
ReadyOk(path) == [tag |-> "Ok", path |-> path]

\* Stream::poll_next, src/lib.rs:410-462.  ready is the set of directories
\* whose search future completes when polled now (the others are Pending).
\* The loop over the children (src/lib.rs:440-454) runs over the indices
\* 0..len with len taken before the loop; i is 1-based here.
RECURSIVE PollNext(_, _, _, _, _)
RECURSIVE PollChildren(_, _, _, _, _, _, _)

PollChildren(nodes, tree, occ, p, ready, i, len) ==
    IF i > len
    THEN LET fp == nodes[p].found_path
         IN  IF fp # <<>>
             THEN [nodes |-> [nodes EXCEPT ![p].found_path =
                                             SubSeq(fp, 1, Len(fp) - 1)],
                   res |-> ReadyOk(fp[Len(fp)])]
             ELSE [nodes |-> nodes, res |-> ReadyNone]
    ELSE IF i > Len(nodes[p].sub_streams)
    THEN \* sub_streams.get_mut(i).unwrap() on a missing index
         [nodes |-> nodes, res |-> IndexPanic]
    ELSE LET sub == nodes[p].sub_streams[i]
             r == PollNext(nodes, tree, occ, sub, ready)
         IN  CASE r.res.tag = "Pending" ->
                    PollChildren(r.nodes, tree, occ, p, ready, i + 1, len)
               [] r.res.tag = "Ok" ->
                    PollChildren(
                      [r.nodes EXCEPT ![p].found_path =
                                        Append(r.nodes[p].found_path, r.res.path)],
                      tree, occ, p, ready, i + 1, len)
               [] r.res.tag = "None" ->
                    PollChildren(
                      DropSubtree([r.nodes EXCEPT ![p].sub_streams =
                                     SwapRemove(r.nodes[p].sub_streams, i)], sub),
                      tree, occ, p, ready, i + 1, len)
               [] r.res.tag = "Err" -> [nodes |-> r.nodes, res |-> ReadyErr]
               [] OTHER -> [nodes |-> r.nodes, res |-> r.res]

PollNext(nodes, tree, occ, p, ready) ==
    LET n == nodes[p]
    IN  IF n.search_future = "Done"
        THEN \* an async fn polled again after it returned
             [nodes |-> nodes, res |-> Panic]
        ELSE IF n.search_future = "Some"
        THEN IF p \notin ready
             THEN [nodes |-> nodes, res |-> Pending]
             ELSE LET rst == Search(tree, occ, p, n.depth)
                  IN  IF rst.ok
                      THEN PollNext(
                             [Distribute(nodes, p, rst.paths)
                                EXCEPT ![p].search_future = "None"],
                             tree, occ, p, ready)
                      ELSE [nodes |-> [nodes EXCEPT ![p].search_future = "Done"],
                            res |-> ReadyErr]
        ELSE IF n.found_path # <<>>
        THEN [nodes |-> [nodes EXCEPT ![p].found_path =
                           SubSeq(n.found_path, 1, Len(n.found_path) - 1)],
              res |-> ReadyOk(n.found_path[Len(n.found_path)])]
        ELSE PollChildren(nodes, tree, occ, p, ready, 1, Len(n.sub_streams))

\* The directories whose search future is still running.
Searching(nodes) == { p \in DOMAIN nodes : nodes[p].search_future = "Some" }

\* ------------------------------------------------------------------------
\* Bounds of the dispatcher runs.
MaxInitLibs == 2   \* libraries loaded from the configuration at startup
MaxSlots == 4      \* pool slots ever created in a run
MaxInputs == 2     \* messages the user interface pushes in a run
MaxTasks == 2      \* tasks in the task pool at a time

\* src/views/movie_manager/mod.rs:170, the depth of a refresh scan
ScanDepth == 4
\* src/main.rs:352, the depth of the scan of the inline refresh
InlineScanDepth == 2

\* Library descriptions the user can enter.  "Bad" has no backend
\* (MultiFs::try_from fails, src/library.rs:74-117); the root of "X" is
\* missing; "A" and "B" hold a video file and a marked subdirectory.
Libs == {"A", "B", "X", "Bad"}

Convertible(lib) == lib # "Bad"

Marked(t) == { m \in DOMAIN t : t[m] = "nomedia" }

\* The files a scan of tree t with depth d has to yield: video files at most
\* d levels below the root with no marked directory on their path.
Qualifying(t, d) ==
    { [dir |-> p, name |-> "v.mkv"] :
        p \in { q \in DOMAIN t :
                  /\ t[q] = "video"
                  /\ Len(q) <= d
                  /\ \A m \in Marked(t) : ~IsPrefix(m, q) } }

LibTree(lib) ==
    IF lib = "X" THEN (<<>> :> "fail")
    ELSE (<<>> :> "video" @@ <<1>> :> "nomedia")

NoFile == [dir |-> <<>>, name |-> ""]
RootVideo == [dir |-> <<>>, name |-> "v.mkv"]

\* The title shown for a discovered file (the placeholder built from the
\* file name, src/views/movie_manager/mod.rs:175), as a number.
Title(fs_id, path) == 10 * fs_id + Len(path.dir)

\* ------------------------------------------------------------------------
VARIABLES
    \* one scan driven to its end by a consumer (StreamExt::collect)
    tree,       \* the directory tree of the scanned library
    occ,        \* whether the pool slot of the library is occupied
    limit,      \* the depth handed to analyze_library
    nodes,      \* the LibraryStream
    results,    \* the items the stream yielded so far, in order
    status,     \* "polling", "ended" (None was returned) or "panicked"
    \* the dispatcher, src/main.rs run
    pool,       \* conns: the connection pool, "None" or the library served
    libraries,  \* state.libraries, "None" or the library
    queue,      \* the message channel
    tasks,      \* pending_futures, task id -> task
    movies,     \* the movie table, entries [title, fs_id, path]
    is_loading, \* the loading flag of the movie table
    loop,       \* "running", or how run ended
    logs,       \* the error log lines written so far
    lock,       \* 0 when the pool lock is free, else the task holding it
    sent,     \* messages pushed by the user interface so far
    cfg,      \* cfg.libraries, the list that is stored as the configuration
    \* the tabs of the interface, src/views/mod.rs AppState
    tab,               \* "MovieManager" or "Settings"
    saved_movie_state, \* None, or the movie view kept while Settings is open
    selected,          \* table_state.selected() of the movie table, 0-based
    received,          \* the movie events registered so far, in order
    \* the library edit form, src/views/settings.rs SettingsEditState
    form,              \* open or not, the focused child, the buttons' clicked flags
    key                \* the last key the form took and the child it went to

scanVars == <<tree, occ, limit, nodes, results, status>>

dispVars == <<pool, libraries, queue, tasks, movies, is_loading, loop, logs,
              lock, sent, cfg>>

formVars == <<form, key>>

uiVars == <<tab, saved_movie_state, selected, received, form, key>>

vars == <<tree, occ, limit, nodes, results, status,
          pool, libraries, queue, tasks, movies, is_loading, loop, logs,
          lock, sent, cfg, tab, saved_movie_state, selected, received,
          form, key>>

None == [some |-> FALSE]
Some(m, sel, load) ==
    [some |-> TRUE, movies |-> m, selected |-> sel, is_loading |-> load]

\* table_state.selected() = None
NoSelection == -1

\* The children of the edit form by their index
\* (src/views/settings.rs:660-720).
NameInput == 0
PathInput == 4
MovieBox == 5
TvShowBox == 6
TestButton == 7
SaveButton == 8
CancelButton == 9
SETTINGS_EDIT_SELECTABLES == 10

\* SettingsEditState::default and the EditNew arm, src/views/settings.rs:
\* 76-85, 455-473; remote tells whether the host, user and password inputs
\* exist.
NewForm(remote) ==
    [open |-> TRUE, remote |-> remote, focused |-> 0,
     test |-> FALSE, save |-> FALSE, cancel |-> FALSE]

\* No edit form: the settings view shows its menu, or the movie view is open.
FormClosed ==
    [open |-> FALSE, remote |-> FALSE, focused |-> 0,
     test |-> FALSE, save |-> FALSE, cancel |-> FALSE]

NoKey == [code |-> "", focused |-> 0]

\* SettingsState::input for the events of the settings view
\* (src/views/settings.rs:68-75, 114-122): OpenMenu replaces the form by the
\* menu, ConnTestResult releases the Test button of an open form.
RECURSIVE FormAfter(_, _)
FormAfter(f, evts) ==
    IF evts = <<>> THEN f
    ELSE LET e == Head(evts)
         IN  CASE e.ev = "OpenMenu" -> FormAfter(FormClosed, Tail(evts))
               [] e.ev = "ConnTestResult" /\ f.open ->
                     FormAfter([f EXCEPT !.test = FALSE], Tail(evts))
               [] OTHER -> FormAfter(f, Tail(evts))

\* AppState::default, src/views/mod.rs:152-164: the movie view is open and
\* no view is saved.
UiIdle ==
    /\ tab = "MovieManager"
    /\ saved_movie_state = None
    /\ selected = NoSelection
    /\ received = <<>>
    /\ form = FormClosed
    /\ key = NoKey

\* analyze_library, src/lib.rs:306-312
analyze_library(depth) == NewStream(depth)

\* The dispatcher before any library is configured.
DispIdle ==
    /\ pool = <<>>
    /\ libraries = <<>>
    /\ queue = <<>>
    /\ tasks = <<>>
    /\ movies = <<>>
    /\ is_loading = FALSE
    /\ loop = "running"
    /\ logs = {}
    /\ lock = 0
    /\ sent = <<>>
    /\ cfg = <<>>

ScanInit ==
    /\ tree \in Trees
    /\ occ = TRUE
    /\ limit \in 0..MaxDepthArg
    /\ nodes = analyze_library(limit)
    /\ results = <<>>
    /\ status = "polling"
    /\ DispIdle
    /\ UiIdle

\* One poll of the root stream by the consumer.
Poll ==
    /\ status = "polling"
    /\ \E ready \in SUBSET Searching(nodes) :
          LET r == PollNext(nodes, tree, occ, <<>>, ready)
          IN  /\ nodes' = r.nodes
              /\ results' = IF r.res.tag \in {"Ok", "Err"}
                            THEN Append(results, r.res) ELSE results
              /\ status' = CASE r.res.tag = "None" -> "ended"
                             [] r.res.tag = "Panic" -> "panicked"
                             [] OTHER -> "polling"
    /\ UNCHANGED <<tree, occ, limit>>
    /\ UNCHANGED <<dispVars, uiVars>>

\* The library is deleted or edited while the scan runs
\* (src/main.rs:300-310 writes None into the slot).
SlotEmptied ==
    /\ status = "polling"
    /\ occ
    /\ occ' = FALSE
    /\ UNCHANGED <<tree, limit, nodes, results, status>>
    /\ UNCHANGED <<dispVars, uiVars>>

ScanNext == Poll \/ SlotEmptied

SpecScan == ScanInit /\ [][ScanNext]_vars

\* A channel that hands a new message out first.
Send_front(q, m) == <<m>> \o q

\* UnboundedSender::send on the channel of src/main.rs:146: the message goes
\* behind the ones that wait.
Send(q, m) == Append(q, m)

\* ------------------------------------------------------------------------
\* Messages (AppMessage, src/views/mod.rs:22-70) and events (AppEvent,
\* src/views/mod.rs:90-136).  of names the operation a closure or a future
\* was built for.
Msg(kind, of, fs_id, path, lib) ==
    [kind |-> kind, of |-> of, fs_id |-> fs_id, path |-> path, lib |-> lib]

Ev(ev, of, title, fs_id, path) ==
    [ev |-> ev, of |-> of, title |-> title, fs_id |-> fs_id, path |-> path]

ClearMovieList == Ev("ClearMovieList", "", 0, 0, NoFile)
OpenTable == Ev("OpenTable", "", 0, 0, NoFile)
OpenMenu == Ev("OpenMenu", "", 0, 0, NoFile)
MovieDiscovered(title, fs_id, path) == Ev("MovieDiscovered", "", title, fs_id, path)
MovieUpdated(title, fs_id, path) == Ev("MovieUpdated", "", title, fs_id, path)
MovieMoved(fs_id, path) == Ev("MovieMoved", "", 0, fs_id, path)
ContinuationIOFuture(of, fs_id, path) == Ev("ContinuationIOFuture", of, 0, fs_id, path)

Continuations == {"ContinuationFuture", "ContinuationAppFuture",
                  "ContinuationIOFuture", "ContinuationHttpFuture"}

\* A translation that resubmits every continuation as an HttpFuture.
ContinuationKind_http(ev) == "HttpFuture"

\* The message kind a continuation is resubmitted as
\* (src/views/mod.rs:170-185, src/main.rs:461-472).
ContinuationKind(ev) ==
    CASE ev = "ContinuationFuture" -> "Future"
      [] ev = "ContinuationAppFuture" -> "AppFuture"
      [] ev = "ContinuationIOFuture" -> "IOFuture"
      [] OTHER -> "HttpFuture"

Log(what, fs_id) == [what |-> what, fs_id |-> fs_id]

Occupied(slots) == { i \in 1..Len(slots) : slots[i] # "None" }

\* ------------------------------------------------------------------------
\* The movie table, src/views/movie_manager/table.rs:257-287.

\* binary_search_by_key on the titles: the index of an entry with the title
\* or the insertion point; on a list that is not sorted any index.
InsertPositions(list, title) ==
    LET fit == { i \in 1..Len(list) + 1 :
                   /\ \A j \in 1..Len(list) : j < i => list[j].title <= title
                   /\ \A j \in 1..Len(list) : j >= i => title <= list[j].title }
    IN  IF fit # {} THEN fit ELSE 1..Len(list) + 1

InsertAt(list, i, e) ==
    SubSeq(list, 1, i - 1) \o <<e>> \o SubSeq(list, i, Len(list))

\* The tables MovieTableState::input can produce for one event.
TableInput(list, e) ==
    CASE e.ev = "ClearMovieList" -> { <<>> }
      [] e.ev = "MovieDiscovered" ->
            { InsertAt(list, i, [title |-> e.title, fs_id |-> e.fs_id, path |-> e.path]) :
                i \in InsertPositions(list, e.title) }
      [] e.ev = "MovieUpdated" ->
            LET hits == { i \in 1..Len(list) :
                            list[i].path = e.path /\ list[i].fs_id = e.fs_id }
                entry == [title |-> e.title, fs_id |-> e.fs_id, path |-> e.path]
            IN  IF hits # {}
                THEN { [list EXCEPT ![CHOOSE i \in hits : \A j \in hits : i <= j] = entry] }
                ELSE { Append(list, entry) }
      [] OTHER -> { list }

LoadingAfter(flag, e) ==
    IF e.ev \in {"MovieDiscovered", "MovieUpdated"} THEN FALSE ELSE flag

\* AppState::register_event applied to a list of events in order
\* (src/views/mod.rs:167-232): a continuation is sent as a message, anything
\* else goes to the movie table.  The result is the set of states
\* [movies, is_loading, queue] the events can lead to.
RECURSIVE RegisterEvents(_, _)
RegisterEvents(st, evts) ==
    IF evts = <<>> THEN { st }
    ELSE LET e == Head(evts)
         IN  IF e.ev \in Continuations
             THEN RegisterEvents(
                    [st EXCEPT !.queue =
                        Send(st.queue,
                               Msg(ContinuationKind(e.ev), e.of, e.fs_id, e.path, ""))],
                    Tail(evts))
             ELSE UNION { RegisterEvents(
                            [st EXCEPT !.movies = m,
                                       !.is_loading = LoadingAfter(st.is_loading, e)],
                            Tail(evts)) : m \in TableInput(st.movies, e) }

UiState == [movies |-> movies, is_loading |-> is_loading, queue |-> queue]

\* ------------------------------------------------------------------------
\* The dispatcher loop, src/main.rs:232-487.

\* The libraries a stored configuration can name; "Bad" is a remote library
\* without a host, from which no connection can be built
\* (src/library.rs:74-117).
ConfigLibs == {"A", "B", "X", "Bad"}

\* Loading at startup, src/main.rs:204-230: a slot is pushed for every
\* configured library a connection can be built from, the others are
\* skipped.
Loaded(c) == SelectSeq(c, Convertible)

DispInit ==
    /\ \E n \in 0..MaxInitLibs : cfg \in [1..n -> ConfigLibs]
    /\ pool = Loaded(cfg)
    /\ libraries = pool
    /\ queue = <<>>
    /\ tasks = <<>>
    /\ movies = <<>>
    /\ is_loading = FALSE
    /\ loop = "running"
    /\ logs = {}
    /\ lock = 0
    /\ sent = <<>>
    /\ tree = (<<>> :> "plain")
    /\ occ = TRUE
    /\ limit = 0
    /\ nodes = analyze_library(0)
    /\ results = <<>>
    /\ status = "ended"
    /\ UiIdle

\* The settings form sends SaveLibrary (src/views/settings.rs:610-626).
UserSaveLibrary ==
    /\ loop = "running"
    /\ Len(sent) < MaxInputs
    /\ \E lib \in Libs :
          queue' = Send(queue, Msg("SettingsMessage", "SaveLibrary", 0, NoFile, lib))
    /\ sent' = Append(sent, queue'[Len(queue')])
    /\ UNCHANGED <<pool, libraries, tasks, movies, is_loading, loop, logs, lock, cfg>>
    /\ UNCHANGED <<scanVars, uiVars>>

\* The settings menu sends EditExisting for one of the libraries it lists
\* (src/views/settings.rs:292-296); the list may be older than the pool.
UserEditExisting ==
    /\ loop = "running"
    /\ Len(sent) < MaxInputs
    /\ \E lib \in Libs \ {"Bad"} :
          queue' = Send(queue, Msg("SettingsMessage", "EditExisting", 0, NoFile, lib))
    /\ sent' = Append(sent, queue'[Len(queue')])
    /\ UNCHANGED <<pool, libraries, tasks, movies, is_loading, loop, logs, lock, cfg>>
    /\ UNCHANGED <<scanVars, uiVars>>

\* The first index whose library equals lib (src/main.rs:301).
FirstIndexOf(libs, lib) ==
    LET hits == { i \in 1..Len(libs) : libs[i] # "None" /\ libs[i] = lib }
    IN  IF hits = {} THEN 0 ELSE CHOOSE i \in hits : \A j \in hits : i <= j

\* An edit that removes the entry instead of writing None into it.
EditSlots_remove(slots, ind) ==
    SubSeq(slots, 1, ind - 1) \o SubSeq(slots, ind + 1, Len(slots))

\* src/main.rs:303-305: the entry at ind after an edit.
EditSlots(slots, ind) == [slots EXCEPT ![ind] = "None"]

\* History: the scan tasks of index ind that have not finished when the
\* library is deleted are marked.
MarkCancelled(ind) ==
    [i \in DOMAIN tasks |->
        IF tasks[i].kind = "Scan" /\ tasks[i].fs_id = ind /\ tasks[i].pc \notin {"done", "panicked"}
        THEN [tasks[i] EXCEPT !.cancelled = TRUE] ELSE tasks[i]]

\* A mutex that lets everyone in.
LockFree_always == TRUE

\* Mutex::lock on the pool (src/lib.rs:38) returns only when no guard is
\* alive.
LockFree == lock = 0

\* The arms of the loop that take the pool lock with conns.lock().await
\* (src/main.rs:305, 314, 345, 386, 408, 429).
AwaitsLock(m) ==
    \/ m.kind = "MovieManagerMessage"
          /\ m.of \in {"RefreshMovies", "CreateNfo", "SaveNfo", "RetrieveArtworks"}
    \/ m.kind = "SettingsMessage" /\ m.of = "EditExisting"
          /\ FirstIndexOf(libraries, m.lib) # 0
    \/ m.kind = "SettingsMessage" /\ m.of = "SaveLibrary" /\ Convertible(m.lib)

\* The loop is in an arm, or waits in an arm for the pool lock.
InArm == loop \in {"running", "waiting"}

\* The index an EditExisting arm holds while it waits for the lock: the
\* library is already gone from the list, its slot is still occupied
\* (src/main.rs:303-305).
EditedIndex ==
    CHOOSE ind \in DOMAIN libraries : libraries[ind] = "None" /\ pool[ind] # "None"

\* The loop has received a message whose arm takes the pool lock while a
\* task holds it: the arm is suspended in conns.lock().await, and with it
\* the whole select! of src/main.rs:235-486.
LoopAwaitLock ==
    /\ loop = "running"
    /\ queue # <<>>
    /\ AwaitsLock(Head(queue))
    /\ lock # 0
    /\ loop' = "waiting"
    /\ IF Head(queue).of = "EditExisting"
       THEN LET ind == FirstIndexOf(libraries, Head(queue).lib)
            IN  /\ libraries' = EditSlots(libraries, ind)
                /\ cfg' = EditSlots(cfg, ind)
       ELSE UNCHANGED <<libraries, cfg>>
    /\ UNCHANGED <<pool, queue, tasks, movies, is_loading, logs, lock, sent>>
    /\ UNCHANGED <<scanVars, uiVars>>

\* SettingsMessage::EditExisting, src/main.rs:300-310.
HandleEditExisting ==
    /\ InArm
    /\ queue # <<>>
    /\ Head(queue).kind = "SettingsMessage" /\ Head(queue).of = "EditExisting"
    /\ (loop = "waiting" \/ AwaitsLock(Head(queue))) => LockFree
    /\ LET ind == IF loop = "waiting" THEN EditedIndex
                  ELSE FirstIndexOf(libraries, Head(queue).lib)
       IN  IF ind # 0
           THEN /\ libraries' = EditSlots(libraries, ind)
                /\ cfg' = EditSlots(cfg, ind)
                /\ pool' = EditSlots(pool, ind)
                /\ logs' = logs
                /\ tasks' = MarkCancelled(ind)
           ELSE /\ logs' = logs \cup {Log("invalid_edit", 0)}
                /\ UNCHANGED <<pool, libraries, tasks, cfg>>
    /\ queue' = Tail(queue)
    /\ loop' = "running"
    /\ UNCHANGED <<movies, is_loading, lock, sent>>
    /\ UNCHANGED <<scanVars, uiVars>>

\* A list of libraries that takes every saved library.
KnownAfterSave_always(libs, lib) == Append(libs, lib)

\* state.libraries after SaveLibrary, src/main.rs:312-315: the library is
\* pushed only when a connection could be built for it.
KnownAfterSave(libs, lib) == IF Convertible(lib) THEN Append(libs, lib) ELSE libs

\* SettingsMessage::SaveLibrary, src/main.rs:311-329.
HandleSaveLibrary ==
    /\ InArm
    /\ queue # <<>>
    /\ Head(queue).kind = "SettingsMessage" /\ Head(queue).of = "SaveLibrary"
    /\ AwaitsLock(Head(queue)) => LockFree
    /\ Len(pool) < MaxSlots
    /\ pool' = IF Convertible(Head(queue).lib)
               THEN Append(pool, Head(queue).lib) ELSE pool
    /\ libraries' = KnownAfterSave(libraries, Head(queue).lib)
    /\ cfg' = KnownAfterSave(cfg, Head(queue).lib)
    /\ queue' = Tail(queue)
    /\ loop' = "running"
    /\ UNCHANGED <<tasks, movies, is_loading, logs, lock, sent>>
    /\ UNCHANGED scanVars
    /\ form' = IF tab = "Settings" THEN FormAfter(form, <<OpenMenu>>) ELSE form
    /\ UNCHANGED <<tab, saved_movie_state, selected, received, key>>

\* The tick arm of the loop, src/main.rs:236-241: the frame is drawn from the
\* state, which it leaves as it is.
Tick ==
    /\ loop = "running"
    /\ UNCHANGED vars

\* The libraries a connection test is asked for: a working one, one without
\* a host, one whose host does not exist.
TestLibs == {"A", "Bad", "Ghost"}

\* The edit form sends TestLibrary in its converted form
\* (src/views/settings.rs:627-644).
UserTestLibrary ==
    /\ loop = "running"
    /\ Len(sent) < MaxInputs
    /\ \E lib \in TestLibs :
          queue' = Send(queue, Msg("Future", "TestLibrary", 0, NoFile, lib))
    /\ sent' = Append(sent, queue'[Len(queue')])
    /\ UNCHANGED <<pool, libraries, tasks, movies, is_loading, loop, logs, lock, cfg>>
    /\ UNCHANGED <<scanVars, uiVars>>

\* From<MovieManagerMessage> for AppMessage, the kind of message each
\* operation is turned into (src/views/movie_manager/mod.rs:157-535).
IntoKind(of) ==
    CASE of = "RefreshMovies" -> "Closure"
      [] of \in {"SearchTitle", "CreateNfo"} -> "HttpFuture"
      [] OTHER -> "IOFuture"

\* The reload key of the movie table, src/views/movie_manager/table.rs:173-182.
\* The message is the only RefreshMovies message of the program; it reaches
\* the loop wrapped (src/main.rs:343) or converted into its closure
\* (src/views/movie_manager/mod.rs:160).
KeyReload ==
    /\ loop = "running"
    /\ tab = "MovieManager"
    /\ Len(sent) < MaxInputs
    /\ ~is_loading
    /\ is_loading' = TRUE
    /\ \E kind \in {"MovieManagerMessage", IntoKind("RefreshMovies")} :
          queue' = Send(queue, Msg(kind, "RefreshMovies", 0, NoFile, ""))
    /\ sent' = Append(sent, queue'[Len(queue')])
    /\ UNCHANGED <<pool, libraries, tasks, movies, loop, logs, lock, cfg>>
    /\ UNCHANGED <<scanVars, uiVars>>

\* The movie views send a message about a movie they hold
\* (src/views/movie_manager/table.rs:198-252, search.rs:168-176,
\* editor.rs:188-200): the index and path were captured when it was listed.
UserMovieMessage ==
    /\ loop = "running"
    /\ Len(sent) < MaxInputs
    /\ \E of \in {"CreateNfo", "SaveNfo", "RetrieveArtworks", "Rename"},
          fs_id \in 1..Len(pool) :
          queue' = Send(queue, Msg("MovieManagerMessage", of, fs_id, RootVideo, ""))
    /\ sent' = Append(sent, queue'[Len(queue')])
    /\ UNCHANGED <<pool, libraries, tasks, movies, is_loading, loop, logs, lock, cfg>>
    /\ UNCHANGED <<scanVars, uiVars>>

\* A movie message sent in its converted form.
UserInto ==
    /\ loop = "running"
    /\ Len(sent) < MaxInputs
    /\ \E of \in {"CreateNfo", "SaveNfo", "RetrieveArtworks", "Rename"},
          fs_id \in 1..Len(pool) :
          queue' = Send(queue, Msg(IntoKind(of), of, fs_id, RootVideo, ""))
    /\ sent' = Append(sent, queue'[Len(queue')])
    /\ UNCHANGED <<pool, libraries, tasks, movies, is_loading, loop, logs, lock, cfg>>
    /\ UNCHANGED <<scanVars, uiVars>>

\* ------------------------------------------------------------------------
\* Tasks of the task pool.
Task(kind, fs_id, path, stream) ==
    [kind |-> kind, fs_id |-> fs_id, path |-> path, pc |-> "run",
     nodes |-> stream, rst |-> <<>>, k |-> 1, events |-> <<>>,
     calls |-> 0, foundEmpty |-> FALSE, cancelled |-> FALSE, lib |-> ""]

Finished(t) == t.pc \in {"done", "panicked"}

FreeTid == CHOOSE i \in 1..MaxTasks :
              i \notin DOMAIN tasks /\ \A j \in 1..MaxTasks : j \notin DOMAIN tasks => i <= j

CanSpawn == \E i \in 1..MaxTasks : i \notin DOMAIN tasks

Spawn(t) == [i \in DOMAIN tasks \cup {FreeTid} |-> IF i = FreeTid THEN t ELSE tasks[i]]

Without(tid) == [i \in DOMAIN tasks \ {tid} |-> tasks[i]]

\* The task a future message is built into when it is spawned.
TaskOf(m) ==
    CASE m.of = "Scan" -> Task("Scan", m.fs_id, m.path, analyze_library(ScanDepth))
      [] m.of = "CreateNfo" -> Task("FetchNfo", m.fs_id, m.path, <<>>)
      [] m.of = "TestLibrary" ->
            [Task("TestLibrary", m.fs_id, m.path, <<>>) EXCEPT !.lib = m.lib]
      [] OTHER -> Task(m.of, m.fs_id, m.path, <<>>)

\* The events of the RefreshMovies closure: one scan continuation per
\* library that is present (src/views/movie_manager/mod.rs:161-193).
RECURSIVE RefreshClosure(_, _)
RefreshClosure(libs, i) ==
    IF i > Len(libs) THEN <<>>
    ELSE IF libs[i] # "None"
    THEN <<ContinuationIOFuture("Scan", i, NoFile)>> \o RefreshClosure(libs, i + 1)
    ELSE RefreshClosure(libs, i + 1)

\* AppMessage::Closure: the closure runs on the loop with the state and its
\* events are folded into the event stream.
HandleClosure ==
    /\ loop = "running"
    /\ queue # <<>>
    /\ Head(queue).kind = "Closure"
    /\ \E st \in RegisterEvents([UiState EXCEPT !.queue = Tail(queue)],
                                RefreshClosure(libraries, 1)) :
          /\ queue' = st.queue
          /\ movies' = st.movies
          /\ is_loading' = st.is_loading
    /\ UNCHANGED <<pool, libraries, tasks, loop, logs, lock, sent, cfg>>
    /\ UNCHANGED <<scanVars, uiVars>>

\* AppMessage::Future, src/main.rs:265-267.
HandleFuture ==
    /\ loop = "running"
    /\ queue # <<>>
    /\ Head(queue).kind = "Future"
    /\ CanSpawn
    /\ tasks' = Spawn(TaskOf(Head(queue)))
    /\ queue' = Tail(queue)
    /\ UNCHANGED <<pool, libraries, movies, is_loading, loop, logs, lock, sent, cfg>>
    /\ UNCHANGED <<scanVars, uiVars>>

\* AppMessage::IOFuture, src/main.rs:288-290.
HandleIOFuture ==
    /\ loop = "running"
    /\ queue # <<>>
    /\ Head(queue).kind = "IOFuture"
    /\ CanSpawn
    /\ tasks' = Spawn(TaskOf(Head(queue)))
    /\ queue' = Tail(queue)
    /\ UNCHANGED <<pool, libraries, movies, is_loading, loop, logs, lock, sent, cfg>>
    /\ UNCHANGED <<scanVars, uiVars>>

\* AppMessage::HttpFuture, src/main.rs:291-293, with the builder of
\* CreateNfo (src/views/movie_manager/mod.rs:227-232), which unwraps the
\* library of the captured index while it runs on the loop.
HandleHttpFuture ==
    /\ loop = "running"
    /\ queue # <<>>
    /\ Head(queue).kind = "HttpFuture"
    /\ CanSpawn
    /\ IF libraries[Head(queue).fs_id] = "None"
       THEN /\ loop' = "panic_unwrap"
            /\ UNCHANGED tasks
       ELSE /\ tasks' = Spawn(TaskOf(Head(queue)))
            /\ UNCHANGED loop
    /\ queue' = Tail(queue)
    /\ UNCHANGED <<pool, libraries, movies, is_loading, logs, lock, sent, cfg>>
    /\ UNCHANGED <<scanVars, uiVars>>

\* ------------------------------------------------------------------------
\* The steps of the tasks.  A task step that takes the pool lock needs the
\* lock to be free.

SlotTree(fs_id) == IF pool[fs_id] = "None" THEN LibTree("A") ELSE LibTree(pool[fs_id])

\* What the scan task does once collect has returned
\* (src/views/movie_manager/mod.rs:171-172).
AfterCollect(t) ==
    [t EXCEPT !.events = <<ClearMovieList>>, !.k = 1,
              !.pc = IF t.rst = <<>> THEN "done" ELSE "open_nfo"]

\* One poll of the stream by collect, src/views/movie_manager/mod.rs:170.
ScanPoll(tid) ==
    /\ tid \in DOMAIN tasks
    /\ tasks[tid].kind = "Scan"
    /\ tasks[tid].pc \in {"run", "collect"}
    /\ LET t == tasks[tid]
       IN  \E ready \in SUBSET (IF LockFree THEN Searching(t.nodes) ELSE {}) :
             LET r == PollNext(t.nodes, SlotTree(t.fs_id), pool[t.fs_id] # "None",
                               <<>>, ready)
                 t1 == [t EXCEPT !.nodes = r.nodes, !.pc = "collect",
                                 !.rst = IF r.res.tag \in {"Ok", "Err"}
                                         THEN Append(t.rst, r.res) ELSE t.rst]
             IN  tasks' = [tasks EXCEPT ![tid] =
                             CASE r.res.tag = "None" -> AfterCollect(t1)
                               [] r.res.tag = "Panic" -> [t1 EXCEPT !.pc = "panicked"]
                               [] OTHER -> t1]
    /\ UNCHANGED <<pool, libraries, queue, movies, is_loading, loop, logs, lock, sent, cfg>>
    /\ UNCHANGED <<scanVars, uiVars>>

\* The slot is occupied when try_open_nfo is called for a found file.
OpenNfoSlotOk(fs_id) == pool[fs_id] # "None"

\* One turn of the loop over the collected items,
\* src/views/movie_manager/mod.rs:172-186.
ScanOpenNfo(tid) ==
    /\ tid \in DOMAIN tasks
    /\ tasks[tid].kind = "Scan"
    /\ tasks[tid].pc = "open_nfo"
    /\ LET t == tasks[tid]
           item == t.rst[t.k]
           next == IF t.k + 1 > Len(t.rst) THEN "done" ELSE "open_nfo"
       IN  IF item.tag = "Ok"
           THEN /\ LockFree
                /\ IF OpenNfoSlotOk(t.fs_id)
                   THEN tasks' = [tasks EXCEPT ![tid] =
                           [t EXCEPT !.events = Append(t.events,
                                          MovieDiscovered(Title(t.fs_id, item.path),
                                                          t.fs_id, item.path)),
                                     !.calls = t.calls + 1,
                                     !.k = t.k + 1, !.pc = next]]
                   ELSE tasks' = [tasks EXCEPT ![tid] = [t EXCEPT !.pc = "panicked"]]
                /\ UNCHANGED logs
           ELSE /\ tasks' = [tasks EXCEPT ![tid] = [t EXCEPT !.k = t.k + 1, !.pc = next]]
                /\ logs' = logs \cup {Log("search_error", t.fs_id)}
    /\ UNCHANGED <<pool, libraries, queue, movies, is_loading, loop, lock, sent, cfg>>
    /\ UNCHANGED <<scanVars, uiVars>>

\* The check as if the slot were never empty.
SlotIsNone_unchecked(fs_id) == FALSE

\* The check of the slot made by a task once it holds the lock
\* (src/views/movie_manager/mod.rs:250, 297, 347, 400).
SlotIsNone(fs_id) == pool[fs_id] = "None"

\* History: foundEmpty records that the slot was empty when the task took
\* the lock.
Locked(t) == [t EXCEPT !.foundEmpty = pool[t.fs_id] = "None"]

Abort(t) == [Locked(t) EXCEPT !.pc = "done", !.events = <<>>]

\* A write stage that puts its result into the movie table by itself.
WriteRun_direct(tid) ==
    /\ tid \in DOMAIN tasks
    /\ tasks[tid].kind \in {"SaveNfo", "WriteNfo"}
    /\ tasks[tid].pc = "run"
    /\ LockFree
    /\ LET t == tasks[tid]
       IN  /\ tasks' = [tasks EXCEPT ![tid] = [t EXCEPT !.pc = "done"]]
           /\ movies' \in TableInput(movies,
                                     MovieUpdated(Title(t.fs_id, t.path), t.fs_id, t.path))
    /\ UNCHANGED <<pool, libraries, queue, is_loading, loop, logs, lock, sent, cfg>>
    /\ UNCHANGED <<scanVars, uiVars>>

\* SaveNfo, src/views/movie_manager/mod.rs:342-393, and the write stage of
\* CreateNfo, src/views/movie_manager/mod.rs:245-277.
WriteRun(tid) ==
    /\ tid \in DOMAIN tasks
    /\ tasks[tid].kind \in {"SaveNfo", "WriteNfo"}
    /\ tasks[tid].pc = "run"
    /\ LockFree
    /\ LET t == tasks[tid]
       IN  IF SlotIsNone(t.fs_id)
           THEN /\ tasks' = [tasks EXCEPT ![tid] = Abort(t)]
                /\ logs' = logs \cup {Log("nfo_failed", t.fs_id)}
           ELSE \/ /\ tasks' = [tasks EXCEPT ![tid] =
                        [Locked(t) EXCEPT !.pc = "done", !.calls = t.calls + 1,
                                  !.events = <<OpenTable,
                                               MovieUpdated(Title(t.fs_id, t.path),
                                                            t.fs_id, t.path)>>]]
                   /\ UNCHANGED logs
                \/ /\ tasks' = [tasks EXCEPT ![tid] =
                        [Locked(t) EXCEPT !.pc = "done", !.calls = t.calls + 1,
                                  !.events = <<>>]]
                   /\ logs' = logs \cup {Log("nfo_failed", t.fs_id)}
    /\ UNCHANGED <<pool, libraries, queue, movies, is_loading, loop, lock, sent, cfg>>
    /\ UNCHANGED <<scanVars, uiVars>>

\* RetrieveArtworks up to its first download,
\* src/views/movie_manager/mod.rs:292-312.
ArtworksLock(tid) ==
    /\ tid \in DOMAIN tasks
    /\ tasks[tid].kind = "RetrieveArtworks"
    /\ tasks[tid].pc = "run"
    /\ LockFree
    /\ LET t == tasks[tid]
       IN  IF SlotIsNone(t.fs_id)
           THEN /\ tasks' = [tasks EXCEPT ![tid] = Abort(t)]
                /\ logs' = logs \cup {Log("artworks_failed", t.fs_id)}
                /\ UNCHANGED lock
           ELSE \/ /\ tasks' = [tasks EXCEPT ![tid] = [Locked(t) EXCEPT !.pc = "download"]]
                   /\ lock' = tid
                   /\ UNCHANGED logs
                \/ /\ tasks' = [tasks EXCEPT ![tid] = [Locked(t) EXCEPT !.pc = "done"]]
                   /\ UNCHANGED <<lock, logs>>
    /\ UNCHANGED <<pool, libraries, queue, movies, is_loading, loop, sent, cfg>>
    /\ UNCHANGED <<scanVars, uiVars>>

\* A download after which the task asks for the pool lock again with its
\* guard still alive.
ArtworksDownload_relock(tid) ==
    /\ tid \in DOMAIN tasks
    /\ tasks[tid].kind = "RetrieveArtworks"
    /\ tasks[tid].pc = "download"
    /\ lock = tid
    /\ tasks' = [tasks EXCEPT ![tid] = [@ EXCEPT !.pc = "run", !.calls = @ + 1]]
    /\ UNCHANGED <<pool, libraries, queue, movies, is_loading, loop, logs, lock, sent, cfg>>
    /\ UNCHANGED <<scanVars, uiVars>>

\* The download awaited with the lock held,
\* src/views/movie_manager/mod.rs:313-337 and src/lib.rs:40-78.
ArtworksDownload(tid) ==
    /\ tid \in DOMAIN tasks
    /\ tasks[tid].kind = "RetrieveArtworks"
    /\ tasks[tid].pc = "download"
    /\ lock = tid
    /\ LET t == tasks[tid]
       IN  \/ /\ tasks' = [tasks EXCEPT ![tid] =
                             [t EXCEPT !.pc = "done", !.calls = t.calls + 1]]
              /\ UNCHANGED logs
           \/ /\ tasks' = [tasks EXCEPT ![tid] = [t EXCEPT !.pc = "done"]]
              /\ logs' = logs \cup {Log("download_failed", t.fs_id)}
    /\ lock' = 0
    /\ UNCHANGED <<pool, libraries, queue, movies, is_loading, loop, sent, cfg>>
    /\ UNCHANGED <<scanVars, uiVars>>

\* A rename that takes the connection out of its slot.
RenameRun_take(tid) ==
    /\ tid \in DOMAIN tasks
    /\ tasks[tid].kind = "Rename"
    /\ tasks[tid].pc = "run"
    /\ LockFree
    /\ tasks' = [tasks EXCEPT ![tid] = [Locked(@) EXCEPT !.pc = "done", !.events = <<>>]]
    /\ pool' = [pool EXCEPT ![tasks[tid].fs_id] = "None"]
    /\ UNCHANGED <<libraries, queue, movies, is_loading, loop, logs, lock, sent, cfg>>
    /\ UNCHANGED <<scanVars, uiVars>>

\* Rename, src/views/movie_manager/mod.rs:394-532.
RenameRun(tid) ==
    /\ tid \in DOMAIN tasks
    /\ tasks[tid].kind = "Rename"
    /\ tasks[tid].pc = "run"
    /\ LockFree
    /\ LET t == tasks[tid]
       IN  IF SlotIsNone(t.fs_id)
           THEN /\ tasks' = [tasks EXCEPT ![tid] = Abort(t)]
                /\ logs' = logs \cup {Log("rename_failed", t.fs_id)}
           ELSE \/ /\ tasks' = [tasks EXCEPT ![tid] =
                        [Locked(t) EXCEPT !.pc = "done", !.calls = t.calls + 1,
                                  !.events = <<MovieMoved(t.fs_id, t.path)>>]]
                   /\ UNCHANGED logs
                \/ /\ tasks' = [tasks EXCEPT ![tid] =
                        [Locked(t) EXCEPT !.pc = "done", !.calls = t.calls + 1,
                                  !.events = <<>>]]
                   /\ logs' = logs \cup {Log("rename_failed", t.fs_id)}
    /\ UNCHANGED <<pool, libraries, queue, movies, is_loading, loop, lock, sent, cfg>>
    /\ UNCHANGED <<scanVars, uiVars>>

\* A metadata fetch that puts the write stage on the channel by itself,
\* before it has finished.
FetchRun_eager(tid) ==
    /\ tid \in DOMAIN tasks
    /\ tasks[tid].kind = "FetchNfo"
    /\ tasks[tid].pc = "run"
    /\ queue' = Send(queue, Msg("IOFuture", "WriteNfo", tasks[tid].fs_id,
                                tasks[tid].path, ""))
    /\ tasks' = [tasks EXCEPT ![tid] = [@ EXCEPT !.pc = "done", !.events = <<>>]]
    /\ UNCHANGED <<pool, libraries, movies, is_loading, loop, logs, lock, sent, cfg>>
    /\ UNCHANGED <<scanVars, uiVars>>

\* The fetch stage of CreateNfo, src/views/movie_manager/mod.rs:233-288.
FetchRun(tid) ==
    /\ tid \in DOMAIN tasks
    /\ tasks[tid].kind = "FetchNfo"
    /\ tasks[tid].pc = "run"
    /\ LET t == tasks[tid]
       IN  \/ /\ tasks' = [tasks EXCEPT ![tid] =
                        [t EXCEPT !.pc = "done",
                                  !.events = <<ContinuationIOFuture("WriteNfo",
                                                                    t.fs_id, t.path)>>]]
              /\ UNCHANGED logs
           \/ /\ tasks' = [tasks EXCEPT ![tid] = [t EXCEPT !.pc = "done", !.events = <<>>]]
              /\ logs' = logs \cup {Log("transform_failed", t.fs_id)}
    /\ UNCHANGED <<pool, libraries, queue, movies, is_loading, loop, lock, sent, cfg>>
    /\ UNCHANGED <<scanVars, uiVars>>

\* The host of the library answers.
Reachable(lib) == lib # "Ghost"

ConnTestResult(rst) == Ev("ConnTestResult", rst, 0, 0, NoFile)

\* The test as if a connection were always established.
ConnTest_optimistic(lib) == "true,true"

\* The result of the connection test, src/views/settings.rs:169-189:
\* (is_connected, exists(path)), and (false, false) when no connection can
\* be built from the library.
ConnTest(lib) ==
    IF ~Convertible(lib) THEN "false,false"
    ELSE IF ~Reachable(lib) THEN "false,false"
    ELSE IF LibTree(lib)[<<>>] = "fail" THEN "true,false"
    ELSE "true,true"

\* The TestLibrary task, src/views/settings.rs:167-193.
TestRun(tid) ==
    /\ tid \in DOMAIN tasks
    /\ tasks[tid].kind = "TestLibrary"
    /\ tasks[tid].pc = "run"
    /\ LET t == tasks[tid]
       IN  /\ tasks' = [tasks EXCEPT ![tid] =
                [t EXCEPT !.pc = "done",
                          !.events = <<ConnTestResult(ConnTest(t.lib))>>]]
           /\ logs' = IF Convertible(t.lib) THEN logs
                      ELSE logs \cup {Log("connection_failed", 0)}
    /\ UNCHANGED <<pool, libraries, queue, movies, is_loading, loop, lock, sent, cfg>>
    /\ UNCHANGED <<scanVars, uiVars>>

TaskStep ==
    /\ InArm
    /\ \E tid \in 1..MaxTasks :
        \/ ScanPoll(tid)
        \/ ScanOpenNfo(tid)
        \/ WriteRun(tid)
        \/ ArtworksLock(tid)
        \/ ArtworksDownload(tid)
        \/ RenameRun(tid)
        \/ FetchRun(tid)
        \/ TestRun(tid)

\* join_next as if a task that panicked took the other tasks down with it.
JoinNext_abort ==
    /\ loop = "running"
    /\ \E tid \in DOMAIN tasks :
          /\ Finished(tasks[tid])
          /\ IF tasks[tid].pc = "done"
             THEN /\ \E st \in RegisterEvents(UiState, tasks[tid].events) :
                        /\ queue' = st.queue
                        /\ movies' = st.movies
                        /\ is_loading' = st.is_loading
                  /\ tasks' = Without(tid)
                  /\ UNCHANGED logs
             ELSE /\ logs' = logs \cup {Log("join_error", tasks[tid].fs_id)}
                  /\ tasks' = <<>>
                  /\ UNCHANGED <<queue, movies, is_loading>>
    /\ UNCHANGED <<pool, libraries, loop, lock, sent, cfg>>
    /\ UNCHANGED scanVars
    /\ \E tid \in DOMAIN tasks \ DOMAIN tasks' :
          form' = IF tab = "Settings" /\ tasks[tid].pc = "done"
                  THEN FormAfter(form, tasks[tid].events) ELSE form
    /\ UNCHANGED <<tab, saved_movie_state, selected, received, key>>

\* pending_futures.join_next, src/main.rs:458-485: the events of a finished
\* task are drained in order; a task that panicked is logged.
JoinNext ==
    /\ loop = "running"
    /\ \E tid \in DOMAIN tasks :
          /\ Finished(tasks[tid])
          /\ tasks' = Without(tid)
          /\ IF tasks[tid].pc = "done"
             THEN /\ \E st \in RegisterEvents(UiState, tasks[tid].events) :
                        /\ queue' = st.queue
                        /\ movies' = st.movies
                        /\ is_loading' = st.is_loading
                  /\ UNCHANGED logs
             ELSE /\ logs' = logs \cup {Log("join_error", tasks[tid].fs_id)}
                  /\ UNCHANGED <<queue, movies, is_loading>>
    /\ UNCHANGED <<pool, libraries, loop, lock, sent, cfg>>
    /\ UNCHANGED scanVars
    /\ \E tid \in DOMAIN tasks \ DOMAIN tasks' :
          form' = IF tab = "Settings" /\ tasks[tid].pc = "done"
                  THEN FormAfter(form, tasks[tid].events) ELSE form
    /\ UNCHANGED <<tab, saved_movie_state, selected, received, key>>

\* ------------------------------------------------------------------------
\* The arms of the loop that run a movie message on the loop itself.

RECURSIVE SetToSeq(_)
SetToSeq(S) ==
    IF S = {} THEN <<>>
    ELSE LET x == CHOOSE y \in S : TRUE IN <<x>> \o SetToSeq(S \ {x})

\* The call analyze_library(conn, path, 2).await of src/main.rs:352: the
\* complete result of a scan of the library with depth 2, or an error.
InlineAnalyze(lib) ==
    IF LibTree(lib)[<<>>] = "fail"
    THEN [ok |-> FALSE, paths |-> <<>>]
    ELSE [ok |-> TRUE, paths |-> SetToSeq(Qualifying(LibTree(lib), InlineScanDepth))]

RECURSIVE DiscoveredEvents(_, _)
DiscoveredEvents(i, paths) ==
    IF paths = <<>> THEN <<>>
    ELSE <<MovieDiscovered(Title(i, Head(paths)), i, Head(paths))>>
         \o DiscoveredEvents(i, Tail(paths))

\* The events registered by the loop of src/main.rs:346-370 from slot i on.
RECURSIVE InlineRefreshEvents(_)
InlineRefreshEvents(i) ==
    IF i > Len(pool) THEN <<>>
    ELSE IF pool[i] = "None" THEN InlineRefreshEvents(i + 1)
    ELSE DiscoveredEvents(i, InlineAnalyze(pool[i]).paths) \o InlineRefreshEvents(i + 1)

InlineRefreshLogs ==
    { Log("analyze_failed", i) : i \in { j \in Occupied(pool) : ~InlineAnalyze(pool[j]).ok } }

IsMovieMessage(of) ==
    /\ queue # <<>>
    /\ Head(queue).kind = "MovieManagerMessage"
    /\ Head(queue).of = of

\* MovieManagerMessage::RefreshMovies, src/main.rs:343-371.
HandleRefreshInline ==
    /\ InArm
    /\ IsMovieMessage("RefreshMovies")
    /\ LockFree
    /\ \E st \in RegisterEvents([UiState EXCEPT !.queue = Tail(queue)],
                                <<ClearMovieList>> \o InlineRefreshEvents(1)) :
          /\ queue' = st.queue
          /\ movies' = st.movies
          /\ is_loading' = st.is_loading
    /\ logs' = logs \cup InlineRefreshLogs
    /\ loop' = "running"
    /\ UNCHANGED <<pool, libraries, tasks, lock, sent, cfg>>
    /\ UNCHANGED <<scanVars, uiVars>>

\* MovieManagerMessage::CreateNfo (src/main.rs:383-406) and
\* MovieManagerMessage::SaveNfo (src/main.rs:407-427): an error of the
\* catalog, of the metadata or of the write leaves run through `?`.
HandleNfoInline ==
    /\ InArm
    /\ IsMovieMessage("CreateNfo") \/ IsMovieMessage("SaveNfo")
    /\ LockFree
    /\ LET m == Head(queue)
       IN  IF pool[m.fs_id] = "None"
           THEN /\ logs' = logs \cup {Log("nfo_failed", m.fs_id)}
                /\ queue' = Tail(queue)
                /\ loop' = "running"
                /\ UNCHANGED <<movies, is_loading>>
           ELSE \/ \E st \in RegisterEvents([UiState EXCEPT !.queue = Tail(queue)],
                                <<OpenTable,
                                  MovieUpdated(Title(m.fs_id, m.path), m.fs_id, m.path)>>) :
                      /\ queue' = st.queue
                      /\ movies' = st.movies
                      /\ is_loading' = st.is_loading
                      /\ loop' = "running"
                      /\ UNCHANGED logs
                \/ /\ loop' = "exit_err"
                   /\ queue' = Tail(queue)
                   /\ UNCHANGED <<movies, is_loading, logs>>
    /\ UNCHANGED <<pool, libraries, tasks, lock, sent, cfg>>
    /\ UNCHANGED <<scanVars, uiVars>>

\* MovieManagerMessage::RetrieveArtworks, src/main.rs:428-448.
HandleArtworksInline ==
    /\ InArm
    /\ IsMovieMessage("RetrieveArtworks")
    /\ LockFree
    /\ LET m == Head(queue)
       IN  IF pool[m.fs_id] = "None"
           THEN logs' = logs \cup {Log("artworks_failed", m.fs_id)}
           ELSE \/ UNCHANGED logs
                \/ logs' = logs \cup {Log("download_failed", m.fs_id)}
    /\ queue' = Tail(queue)
    /\ loop' = "running"
    /\ UNCHANGED <<pool, libraries, tasks, movies, is_loading, lock, sent, cfg>>
    /\ UNCHANGED <<scanVars, uiVars>>

\* The arm `_ => unimplemented!()`, src/main.rs:452, reached by a Rename
\* message and by a Closure message, for which run() has no arm.
HandleUnimplemented ==
    /\ loop = "running"
    /\ \/ IsMovieMessage("Rename")
       \/ queue # <<>> /\ Head(queue).kind = "Closure"
    /\ loop' = "panic_unimplemented"
    /\ queue' = Tail(queue)
    /\ UNCHANGED <<pool, libraries, tasks, movies, is_loading, logs, lock, sent, cfg>>
    /\ UNCHANGED <<scanVars, uiVars>>

DispNext ==
    \/ Tick
    \/ UserSaveLibrary
    \/ UserTestLibrary
    \/ UserEditExisting
    \/ KeyReload
    \/ UserMovieMessage
    \/ UserInto
    \/ LoopAwaitLock
    \/ HandleEditExisting
    \/ HandleSaveLibrary
    \/ HandleClosure
    \/ HandleFuture
    \/ HandleIOFuture
    \/ HandleHttpFuture
    \/ HandleRefreshInline
    \/ HandleNfoInline
    \/ HandleArtworksInline
    \/ HandleUnimplemented
    \/ TaskStep
    \/ JoinNext

Spec == DispInit /\ [][DispNext]_vars

\* One turn of the loop: an arm of the select! of src/main.rs:235-486 that
\* is ready runs.
LoopTurn ==
    \/ LoopAwaitLock
    \/ HandleEditExisting
    \/ HandleSaveLibrary
    \/ HandleClosure
    \/ HandleFuture
    \/ HandleIOFuture
    \/ HandleHttpFuture
    \/ HandleRefreshInline
    \/ HandleNfoInline
    \/ HandleArtworksInline
    \/ HandleUnimplemented
    \/ JoinNext

\* The scheduling of the runtime: select! polls its ready branches in a
\* random order, so an arm that stays ready is taken, and a spawned task
\* that can advance is polled. Nothing obliges the user to type.
Fairness == WF_vars(LoopTurn) /\ WF_vars(TaskStep)

SpecLive == DispInit /\ [][DispNext]_vars /\ Fairness

\* ------------------------------------------------------------------------
\* The interface state on its own: the events and keys AppState::register_event
\* (src/views/mod.rs:167-232) takes, in any order.

MaxEvents == 3     \* movie events registered in a run

Titles == {1, 2}
SubVideo == [dir |-> <<1>>, name |-> "v.mkv"]

\* The events that change the movie table.
TableEvents ==
    {ClearMovieList}
      \cup { MovieDiscovered(t, 1, p) : t \in Titles, p \in {RootVideo, SubVideo} }
      \cup { MovieUpdated(t, 1, p) : t \in Titles, p \in {RootVideo, SubVideo} }

\* A table that keeps its selection when it is cleared.
SelectedAfter_keep(sel, e) == sel

\* src/views/movie_manager/table.rs:257-261: ClearMovieList drops the
\* selection; the other events leave it.
SelectedAfter(sel, e) == IF e.ev = "ClearMovieList" THEN NoSelection ELSE sel

\* A movie event reaches register_event (src/views/mod.rs:222-230): the
\* settings view ignores it (src/views/settings.rs:123-126, 308-313,
\* 653-658), the movie view hands it to the table.
RegisterMovieEvent ==
    /\ loop = "running"
    /\ Len(received) < MaxEvents
    /\ \E e \in TableEvents :
          /\ received' = Append(received, e)
          /\ IF tab = "Settings"
             THEN UNCHANGED <<movies, is_loading, selected>>
             ELSE /\ movies' \in TableInput(movies, e)
                  /\ is_loading' = LoadingAfter(is_loading, e)
                  /\ selected' = SelectedAfter(selected, e)
    /\ UNCHANGED <<tab, saved_movie_state>>
    /\ UNCHANGED <<pool, libraries, queue, tasks, loop, logs, lock, sent, cfg>>
    /\ UNCHANGED <<scanVars, formVars>>

\* Alt-s, src/views/mod.rs:187-204: the movie view is cloned into
\* saved_movie_state and replaced by a new settings view.
KeyAltS ==
    /\ loop = "running"
    /\ Len(sent) < MaxInputs
    /\ saved_movie_state' = IF tab = "MovieManager"
                            THEN Some(movies, selected, is_loading)
                            ELSE saved_movie_state
    /\ tab' = "Settings"
    /\ movies' = <<>>
    /\ selected' = NoSelection
    /\ is_loading' = FALSE
    /\ queue' = Send(queue, Msg("Future", "OpenMenu", 0, NoFile, ""))
    /\ sent' = Append(sent, queue'[Len(queue')])
    /\ UNCHANGED <<pool, libraries, tasks, loop, logs, lock, cfg, received>>
    /\ UNCHANGED <<scanVars, formVars>>

\* Alt-h, src/views/mod.rs:205-213: in the movie view OpenTable goes to the
\* table, which ignores it; from the settings view the saved movie view, or
\* a new one, is opened.
KeyAltH ==
    /\ loop = "running"
    /\ IF tab = "MovieManager"
       THEN UNCHANGED <<tab, movies, selected, is_loading>>
       ELSE LET st == IF saved_movie_state.some THEN saved_movie_state
                      ELSE Some(<<>>, NoSelection, FALSE)
            IN  /\ tab' = "MovieManager"
                /\ movies' = st.movies
                /\ selected' = st.selected
                /\ is_loading' = st.is_loading
    /\ UNCHANGED <<saved_movie_state, received>>
    /\ UNCHANGED <<pool, libraries, queue, tasks, loop, logs, lock, sent, cfg>>
    /\ UNCHANGED <<scanVars, formVars>>

\* Up, src/views/movie_manager/table.rs:183-189.
KeyUp ==
    /\ loop = "running"
    /\ tab = "MovieManager"
    /\ Len(movies) > 0
    /\ selected' = IF selected = NoSelection THEN NoSelection
                   ELSE (selected + Len(movies) - 1) % Len(movies)
    /\ UNCHANGED <<tab, saved_movie_state, received, movies, is_loading>>
    /\ UNCHANGED <<pool, libraries, queue, tasks, loop, logs, lock, sent, cfg>>
    /\ UNCHANGED <<scanVars, formVars>>

\* Down, src/views/movie_manager/table.rs:190-197.
KeyDown ==
    /\ loop = "running"
    /\ tab = "MovieManager"
    /\ Len(movies) > 0
    /\ selected' = IF selected = NoSelection THEN 0
                   ELSE (selected + 1) % Len(movies)
    /\ UNCHANGED <<tab, saved_movie_state, received, movies, is_loading>>
    /\ UNCHANGED <<pool, libraries, queue, tasks, loop, logs, lock, sent, cfg>>
    /\ UNCHANGED <<scanVars, formVars>>

\* A key that acts on the selected movie, src/views/movie_manager/table.rs:
\* 198-252: self.movies[s] is read, which panics for an index that is not in
\* the list, and a message about that movie is sent.
KeyOnSelected ==
    /\ loop = "running"
    /\ tab = "MovieManager"
    /\ selected # NoSelection
    /\ Len(sent) < MaxInputs
    /\ IF selected >= Len(movies)
       THEN /\ loop' = "panic_index"
            /\ UNCHANGED <<queue, sent>>
       ELSE /\ \E kind \in {"MovieManagerMessage", "TriggerEvent"} :
                \E of \in IF kind = "TriggerEvent" THEN {"SearchMovie", "EditMovie"}
                          ELSE {"SaveNfo", "RetrieveArtworks"} :
                   queue' = Send(queue, Msg(kind, of, movies[selected + 1].fs_id,
                                            movies[selected + 1].path, ""))
            /\ sent' = Append(sent, queue'[Len(queue')])
            /\ UNCHANGED loop
    /\ UNCHANGED <<tab, saved_movie_state, received, movies, is_loading, selected>>
    /\ UNCHANGED <<pool, libraries, tasks, logs, lock, cfg>>
    /\ UNCHANGED <<scanVars, formVars>>

UiInit ==
    /\ DispIdle
    /\ UiIdle
    /\ tree = (<<>> :> "plain")
    /\ occ = TRUE
    /\ limit = 0
    /\ nodes = analyze_library(0)
    /\ results = <<>>
    /\ status = "ended"

UiNext ==
    \/ RegisterMovieEvent
    \/ KeyAltS
    \/ KeyAltH
    \/ KeyUp
    \/ KeyDown
    \/ KeyOnSelected
    \/ KeyReload

SpecUi == UiInit /\ [][UiNext]_vars

\* ------------------------------------------------------------------------
\* The library edit form of the settings view with the loop that handles
\* its messages.

Keys == {"Tab", "BackTab", "Enter", "Char", "Space"}

\* The library the fields of the form describe.
FormLib == "A"

\* focus_child, src/views/settings.rs:660-695: the host, user and password
\* inputs take the focus only when they exist.
Focusable(f, index) == index \in 1..3 => f.remote

\* input_child, src/views/settings.rs:697-720: a text input takes a
\* character (src/views/widgets/input.rs:45-105), a checkbox the space
\* (src/views/widgets/checkbox.rs:80-86), a button Enter
\* (src/views/widgets/button.rs:94-100).
Accepts(f, index, k) ==
    CASE index \in {NameInput, PathInput} -> k \in {"Char", "Space"}
      [] index \in 1..3 -> f.remote /\ k \in {"Char", "Space"}
      [] index \in {MovieBox, TvShowBox} -> k = "Space"
      [] OTHER -> k = "Enter"

\* The loops of src/views/settings.rs:577-590 that look for the next child
\* that takes the focus.
RECURSIVE FocusFrom(_, _, _)
FocusFrom(f, index, step) ==
    IF Focusable(f, index) THEN index
    ELSE FocusFrom(f, (index + step) % SETTINGS_EDIT_SELECTABLES, step)

\* ButtonState::input, src/views/widgets/button.rs:94-100: Enter sets the
\* clicked flag of the focused button, and nothing in press_key clears it.
Clicked(f) ==
    CASE f.focused = TestButton -> [f EXCEPT !.test = TRUE]
      [] f.focused = SaveButton -> [f EXCEPT !.save = TRUE]
      [] f.focused = CancelButton -> [f EXCEPT !.cancel = TRUE]
      [] OTHER -> f

\* src/views/settings.rs:592-645: the message an accepted key sends.
FormMessages(f) ==
    CASE f.focused \in {MovieBox, TvShowBox} -> <<>>
      [] f.cancel -> <<Msg("Future", "OpenMenu", 0, NoFile, "")>>
      [] f.save -> <<Msg("SettingsMessage", "SaveLibrary", 0, NoFile, FormLib)>>
      [] f.test -> <<Msg("Future", "TestLibrary", 0, NoFile, FormLib)>>
      [] OTHER -> <<>>

\* SettingsEditState::press_key, src/views/settings.rs:574-650.
FormPressKey ==
    /\ loop = "running"
    /\ tab = "Settings"
    /\ form.open
    /\ Len(sent) < MaxInputs
    /\ \E k \in Keys :
          /\ key' = [code |-> k, focused |-> form.focused]
          /\ CASE k = "Tab" ->
                    /\ form' = [form EXCEPT !.focused =
                          FocusFrom(form, (form.focused + 1) % SETTINGS_EDIT_SELECTABLES, 1)]
                    /\ UNCHANGED <<queue, sent>>
               [] k = "BackTab" ->
                    /\ form' = [form EXCEPT !.focused =
                          FocusFrom(form, (form.focused + SETTINGS_EDIT_SELECTABLES - 1)
                                            % SETTINGS_EDIT_SELECTABLES,
                                    SETTINGS_EDIT_SELECTABLES - 1)]
                    /\ UNCHANGED <<queue, sent>>
               [] OTHER ->
                    IF Accepts(form, form.focused, k)
                    THEN /\ form' = Clicked(form)
                         /\ queue' = queue \o FormMessages(form')
                         /\ sent' = sent \o FormMessages(form')
                    ELSE UNCHANGED <<form, queue, sent>>
    /\ UNCHANGED <<tab, saved_movie_state, selected, received>>
    /\ UNCHANGED <<pool, libraries, tasks, movies, is_loading, loop, logs, lock, cfg>>
    /\ UNCHANGED scanVars

\* The future of the Cancel button, src/views/settings.rs:596-606.
OpenMenuRun(tid) ==
    /\ tid \in DOMAIN tasks
    /\ tasks[tid].kind = "OpenMenu"
    /\ tasks[tid].pc = "run"
    /\ tasks' = [tasks EXCEPT ![tid] =
                    [tasks[tid] EXCEPT !.pc = "done", !.events = <<OpenMenu>>]]
    /\ UNCHANGED <<pool, libraries, queue, movies, is_loading, loop, logs, lock, sent, cfg>>
    /\ UNCHANGED <<scanVars, uiVars>>

\* The tasks the form's messages start.
FormTaskStep ==
    /\ InArm
    /\ \E tid \in 1..MaxTasks : TestRun(tid) \/ OpenMenuRun(tid)

\* The settings view shows a new edit form (EditNew, src/views/settings.rs:
\* 76-85); no library is configured.
FormInit ==
    /\ DispIdle
    /\ tab = "Settings"
    /\ saved_movie_state = Some(<<>>, NoSelection, FALSE)
    /\ selected = NoSelection
    /\ received = <<>>
    /\ \E remote \in BOOLEAN : form = NewForm(remote)
    /\ key = NoKey
    /\ tree = (<<>> :> "plain")
    /\ occ = TRUE
    /\ limit = 0
    /\ nodes = analyze_library(0)
    /\ results = <<>>
    /\ status = "ended"

FormNext ==
    \/ FormPressKey
    \/ HandleSaveLibrary
    \/ HandleFuture
    \/ FormTaskStep
    \/ JoinNext

SpecForm == FormInit /\ [][FormNext]_vars

\* ------------------------------------------------------------------------
\* Properties of the dispatcher.

\* C1: whatever SaveLibrary and EditExisting messages are processed, the
\* pool and the list of libraries change only by appending one entry or by
\* overwriting an entry with empty: no entry is removed or shifted, and an
\* index never comes to designate a different library.
C1_SlotsOnlyAppendOrEmpty ==
    [][ /\ Len(pool') \in {Len(pool), Len(pool) + 1}
        /\ Len(libraries') \in {Len(libraries), Len(libraries) + 1}
        /\ \A i \in 1..Len(pool) : pool'[i] \in {pool[i], "None"}
        /\ \A i \in 1..Len(libraries) : libraries'[i] \in {libraries[i], "None"} ]_vars

\* A slot was emptied and a later library was appended behind it.
C1_Witness ==
    /\ Len(pool) = MaxInitLibs + 1
    /\ pool[1] = "None"
    /\ pool[Len(pool)] # "None"
    /\ libraries = pool
    /\ Len(sent) = 2

\* C2: a scan task whose library is deleted while the task is in flight
\* does not panic: it completes, and it carries no event of the deleted
\* index when it does.
C2_CancelledScanCompletes ==
    \A tid \in DOMAIN tasks :
        tasks[tid].cancelled =>
            /\ tasks[tid].pc # "panicked"
            /\ tasks[tid].pc = "done" =>
                 \A k \in 1..Len(tasks[tid].events) :
                     tasks[tid].events[k].ev # "MovieDiscovered"

\* C3: a SaveNfo, RetrieveArtworks, Rename or sidecar-writing task that
\* takes the lock and finds its slot empty has ended with a log line, no
\* backend call and no event, and the step in which it finds the slot empty
\* changes neither the pool nor the user interface state.
C3_EmptySlotAborts ==
    /\ [](\A tid \in DOMAIN tasks :
            tasks[tid].foundEmpty =>
                /\ tasks[tid].pc = "done"
                /\ tasks[tid].events = <<>>
                /\ tasks[tid].calls = 0
                /\ lock # tid
                /\ \E l \in logs : l.fs_id = tasks[tid].fs_id
                                   /\ l.what \in {"nfo_failed", "artworks_failed",
                                                  "rename_failed"})
    /\ [][ \A tid \in DOMAIN tasks :
             (tid \in DOMAIN tasks' /\ tasks'[tid].foundEmpty /\ ~tasks[tid].foundEmpty)
                => UNCHANGED <<pool, libraries, movies, is_loading, queue, loop>> ]_vars

\* The writing stage of CreateNfo found its slot empty.
C3_Witness ==
    \E tid \in DOMAIN tasks : tasks[tid].kind = "WriteNfo" /\ tasks[tid].foundEmpty

\* C4: a failed background operation never terminates the dispatcher loop.
C4_FailureKeepsLoopRunning == loop # "exit_err"

\* C5: two occupied libraries, each with a video file at the root and a
\* marked subdirectory holding another; after one refresh whose scan tasks
\* have all ended and been drained, the table holds exactly the two files
\* of the roots.
C5_RefreshListsBothRoots ==
    ( /\ pool = <<"A", "B">>
      /\ Len(sent) = 1
      /\ sent[1].of = "RefreshMovies"
      /\ queue = <<>>
      /\ tasks = <<>>
      /\ loop = "running" )
    => /\ Len(movies) = 2
       /\ { <<movies[k].fs_id, movies[k].path>> : k \in 1..Len(movies) }
            = { <<1, RootVideo>>, <<2, RootVideo>> }

C11_NoLockAcrossSuspension ==
    \A tid \in DOMAIN tasks : ~(lock = tid /\ ~Finished(tasks[tid]))

\* C12: the loop never waits for a task: it is never suspended inside an
\* arm, unable to take a tick, an input event or a message, while a task
\* that is stalled in a download holds the pool lock.
C12_LoopNeverBlocks ==
    \A tid \in DOMAIN tasks :
        (tasks[tid].pc = "download" /\ lock = tid) => loop # "waiting"

C14_FifoChannel ==
    [][\E k \in {0, 1} :
          /\ k <= Len(queue)
          /\ Len(queue') >= Len(queue) - k
          /\ SubSeq(queue', 1, Len(queue) - k) = SubSeq(queue, k + 1, Len(queue))]_vars

\* Two different messages were pushed while the loop was busy; the first has
\* been taken and the second is the next one.
C14_Witness ==
    /\ Len(sent) = 2
    /\ sent[1] # sent[2]
    /\ queue # <<>>
    /\ Head(queue) = sent[2]
    /\ \A i \in DOMAIN queue : queue[i] # sent[1]
    /\ \E tid \in DOMAIN tasks : Finished(tasks[tid])

\* The messages of the channel that ask for the write stage of CreateNfo.
WriteNfoMessages(q) ==
    { i \in DOMAIN q : q[i].kind = "IOFuture" /\ q[i].of = "WriteNfo" }

\* C15: the stages of CreateNfo run one after the other. The write stage is
\* put on the channel only by the step of the loop that drains a finished
\* metadata fetch, and its task starts only when the loop takes that message;
\* a stage that still runs has produced no event, so that MovieUpdated is
\* applied only when the loop drains a write stage that has finished.
C15_StagesInSequence ==
    /\ [](\A tid \in DOMAIN tasks :
            (tasks[tid].kind \in {"FetchNfo", "WriteNfo"} /\ tasks[tid].pc = "run")
                => tasks[tid].events = <<>>)
    /\ [][ /\ Cardinality(WriteNfoMessages(queue'))
                > Cardinality(WriteNfoMessages(queue))
              => \E tid \in DOMAIN tasks \ DOMAIN tasks' :
                    /\ tasks[tid].kind = "FetchNfo"
                    /\ tasks[tid].pc = "done"
                    /\ tasks[tid].events
                         = <<ContinuationIOFuture("WriteNfo", tasks[tid].fs_id,
                                                  tasks[tid].path)>>
                    /\ queue' = Send(queue, Msg("IOFuture", "WriteNfo",
                                                tasks[tid].fs_id, tasks[tid].path, ""))
           /\ \A tid \in DOMAIN tasks' \ DOMAIN tasks :
                tasks'[tid].kind = "WriteNfo"
                  => /\ queue # <<>>
                     /\ Head(queue) = Msg("IOFuture", "WriteNfo", tasks'[tid].fs_id,
                                          tasks'[tid].path, "")
                     /\ queue' = Tail(queue)
                     /\ tasks'[tid].pc = "run"
           /\ \A tid \in DOMAIN tasks \ DOMAIN tasks' :
                /\ Finished(tasks[tid])
                /\ (tasks[tid].kind = "WriteNfo" /\ movies' # movies)
                      => \E i \in DOMAIN tasks[tid].events :
                            tasks[tid].events[i].ev = "MovieUpdated"
         ]_vars

\* The write stage of a CreateNfo has finished with its MovieUpdated event.
C15_Witness ==
    \E tid \in DOMAIN tasks :
        /\ tasks[tid].kind = "WriteNfo"
        /\ tasks[tid].pc = "done"
        /\ tasks[tid].events # <<>>

\* C16: the state of the interface (the movie table, its loading flag, the
\* list of libraries) is changed only by the loop: a step in which a task
\* makes progress leaves it as it is, and what the task has found stays in
\* its completion value until the loop drains the task.
C16_OnlyLoopMutatesUi ==
    [][(\E tid \in DOMAIN tasks \cap DOMAIN tasks' :
            tasks'[tid] # [tasks[tid] EXCEPT !.cancelled = tasks'[tid].cancelled])
          => UNCHANGED <<movies, is_loading, libraries>>]_vars

\* A task has finished with a result for the table that the table does not
\* show yet.
C16_Witness ==
    \E tid \in DOMAIN tasks :
        /\ tasks[tid].pc = "done"
        /\ \E i \in DOMAIN tasks[tid].events :
              /\ tasks[tid].events[i].ev \in {"MovieDiscovered", "MovieUpdated"}
              /\ \A k \in DOMAIN movies :
                    movies[k].path # tasks[tid].events[i].path

\* C17: when the loop takes a direct-closure message from the channel, the
\* closure is run on the loop and the loop goes on with the events it
\* returned.
C17_ClosureRunsInline ==
    [][( /\ loop = "running"
         /\ queue # <<>>
         /\ Head(queue).kind = "Closure"
         /\ queue' # queue
         /\ UNCHANGED <<sent, tasks>> )
        => ( /\ loop' = "running"
             /\ \E st \in RegisterEvents([UiState EXCEPT !.queue = Tail(queue)],
                                         RefreshClosure(libraries, 1)) :
                   /\ queue' = st.queue
                   /\ movies' = st.movies
                   /\ is_loading' = st.is_loading )]_vars

\* C18: the pool lock has at most one holder. A lock that is held belongs to
\* the one task that is downloading, and while it is held no other party
\* writes a slot or makes a call on a connection of the pool.
C18_OneLockHolder ==
    /\ [](/\ lock # 0 => (lock \in DOMAIN tasks /\ tasks[lock].pc = "download")
          /\ \A tid \in DOMAIN tasks : tasks[tid].pc = "download" => lock = tid)
    /\ [][lock # 0 =>
            /\ pool' = pool
            /\ \A tid \in (DOMAIN tasks \cap DOMAIN tasks') \ {lock} :
                  /\ tasks'[tid].calls = tasks[tid].calls
                  /\ tasks'[tid].nodes = tasks[tid].nodes
                  /\ tasks'[tid].foundEmpty = tasks[tid].foundEmpty
                  /\ tasks'[tid].pc # "download"]_vars

\* The lock is held while another task that needs it has not finished.
C18_Witness ==
    /\ lock # 0
    /\ \E tid \in DOMAIN tasks \ {lock} :
          /\ tasks[tid].kind \in {"Scan", "SaveNfo", "WriteNfo", "RetrieveArtworks"}
          /\ ~Finished(tasks[tid])

\* Which slots of the pool there are and which of them are empty.
Occupancy(slots) == [i \in DOMAIN slots |-> slots[i] = "None"]

\* C19: the occupancy of the pool changes only in a step in which the loop
\* handles a SaveLibrary or an EditExisting message; a step in which a task
\* makes progress leaves the number of slots and the empty slots as they are.
C19_OnlyDispatcherChangesPool ==
    [][ /\ Occupancy(pool') # Occupancy(pool)
          => /\ loop \in {"running", "waiting"}
             /\ queue # <<>>
             /\ Head(queue).kind = "SettingsMessage"
             /\ Head(queue).of \in {"SaveLibrary", "EditExisting"}
             /\ queue' = Tail(queue)
        /\ (\E tid \in DOMAIN tasks \cap DOMAIN tasks' :
                tasks'[tid] # [tasks[tid] EXCEPT !.cancelled = tasks'[tid].cancelled])
          => Occupancy(pool') = Occupancy(pool) ]_vars

\* A task has finished a call on a slot and the loop has emptied a slot.
C19_Witness ==
    /\ \E tid \in DOMAIN tasks : tasks[tid].pc = "done" /\ tasks[tid].calls > 0
    /\ \E i \in DOMAIN pool : pool[i] = "None"

\* C20: a CreateNfo whose library has been deleted in the meantime is a
\* benign cancellation also when the loop starts the operation: the step that
\* takes the message leaves the loop running and the movie table as it is.
C20_DeletedLibraryIsBenign ==
    [][( /\ loop = "running"
         /\ queue # <<>>
         /\ Head(queue).kind = "HttpFuture"
         /\ Head(queue).of = "CreateNfo"
         /\ libraries[Head(queue).fs_id] = "None"
         /\ queue' # queue
         /\ UNCHANGED <<sent, tasks>> )
        => (loop' = "running" /\ movies' = movies)]_vars

\* C21: a sidecar write that fails changes nothing and stays out of the
\* loop. A finished write task carries either both of its events or none, and
\* the step in which the loop takes a SaveNfo message leaves the loop running,
\* with the table changed by the whole update or not at all.
C21_WriteFailureContained ==
    /\ [](\A tid \in DOMAIN tasks :
            (tasks[tid].kind \in {"SaveNfo", "WriteNfo"} /\ tasks[tid].pc = "done")
              => \/ tasks[tid].events = <<>>
                 \/ tasks[tid].events
                      = <<OpenTable,
                          MovieUpdated(Title(tasks[tid].fs_id, tasks[tid].path),
                                       tasks[tid].fs_id, tasks[tid].path)>>)
    /\ [][( /\ InArm
            /\ IsMovieMessage("SaveNfo")
            /\ queue' # queue
            /\ UNCHANGED <<sent, tasks>> )
           => loop' = "running"]_vars

\* Slot i of the pool is occupied exactly when library i is known.
SlotMatches(i) == (pool[i] = "None") <=> (libraries[i] = "None")

C23_ConfigMatchesPool ==
    loop # "waiting" =>
        /\ Len(cfg) = Len(pool)
        /\ \A i \in DOMAIN pool : (cfg[i] = "None") <=> (pool[i] = "None")

\* The future kind that belongs to each kind of continuation.
MatchingKind ==
    [ContinuationFuture |-> "Future", ContinuationAppFuture |-> "AppFuture",
     ContinuationIOFuture |-> "IOFuture", ContinuationHttpFuture |-> "HttpFuture"]

\* One message of the matching kind for each continuation of a list of
\* events, in the order of the list.
RECURSIVE Resubmitted(_)
Resubmitted(evts) ==
    IF evts = <<>> THEN <<>>
    ELSE LET e == Head(evts)
         IN  IF e.ev \in DOMAIN MatchingKind
             THEN <<Msg(MatchingKind[e.ev], e.of, e.fs_id, e.path, "")>>
                    \o Resubmitted(Tail(evts))
             ELSE Resubmitted(Tail(evts))

C29_EverythingProgresses ==
    /\ (queue # <<>>) ~> (queue = <<>>)
    /\ \A tid \in 1..MaxTasks :
          (tid \in DOMAIN tasks /\ Finished(tasks[tid])) ~> (tid \notin DOMAIN tasks)
    /\ (\E i \in DOMAIN queue : queue[i].kind = "IOFuture" /\ queue[i].of = "WriteNfo")
          ~> (\E tid \in DOMAIN tasks : tasks[tid].kind = "WriteNfo")

\* C30: a step that takes a Future, IOFuture or HttpFuture message from the
\* channel puts one new, unfinished task into the task set and leaves the
\* loop running, ready for its next turn.
C30_FutureMessagesAreSpawned ==
    [][(/\ queue # <<>>
        /\ Head(queue).kind \in {"Future", "IOFuture", "HttpFuture"}
        /\ queue' = Tail(queue))
       => /\ loop' = "running"
          /\ \E tid \in DOMAIN tasks' \ DOMAIN tasks :
                /\ ~Finished(tasks'[tid])
                /\ DOMAIN tasks' = DOMAIN tasks \cup {tid}]_vars

\* C33: once the reload key has set the loading flag, the flag becomes false
\* again, unless the loop has ended and drains nothing any more.
C33_LoadingFlagResets == is_loading ~> (~is_loading \/ ~InArm)

\* C34: no library is scanned by two scan tasks at once: the loading flag
\* keeps the reload key from starting a refresh while scan tasks of an
\* earlier refresh exist.
C34_OneRefreshPerLibrary ==
    \A t1, t2 \in DOMAIN tasks :
        (t1 # t2 /\ tasks[t1].kind = "Scan" /\ tasks[t2].kind = "Scan")
          => tasks[t1].fs_id # tasks[t2].fs_id

\* The tables a list of events leads to when each event is applied to the
\* movie table in order.
RECURSIVE TablesAfter(_, _)
TablesAfter(list, evts) ==
    IF evts = <<>> THEN {list}
    ELSE UNION { TablesAfter(m, Tail(evts)) : m \in TableInput(list, Head(evts)) }

\* C35: whenever the movie view is open its table is one that the events
\* registered so far produce when all of them are applied in order, whether
\* they arrived with the movie view or the settings view open.
C35_EventsSurviveSettings ==
    tab = "MovieManager" => movies \in TablesAfter(<<>>, received)

\* C36: the selection of the movie table, in the open movie view and in the
\* saved one, is none or an index below the number of movies, and no key
\* reads a movie outside the list.
C36_SelectionInBounds ==
    /\ selected = NoSelection \/ (0 <= selected /\ selected < Len(movies))
    /\ saved_movie_state.some =>
          \/ saved_movie_state.selected = NoSelection
          \/ /\ 0 <= saved_movie_state.selected
             /\ saved_movie_state.selected < Len(saved_movie_state.movies)
    /\ loop # "panic_index"

\* A movie is selected in a table that was cleared and filled again, and a
\* key has sent a message about the selected movie.
C36_Witness ==
    /\ selected # NoSelection
    /\ selected = Len(movies) - 1
    /\ \E i \in DOMAIN received : received[i].ev = "ClearMovieList"
    /\ \E i \in DOMAIN sent : sent[i].of \in {"SaveNfo", "RetrieveArtworks"}

\* C37: the list of the movie table is sorted by title.
C37_TableSortedByTitle ==
    \A i, j \in DOMAIN movies : i < j => movies[i].title <= movies[j].title

\* C38: a step that pushes a SaveLibrary or TestLibrary message is the
\* press of Enter on the Save or the Test button.
C38_OneMessagePerButtonPress ==
    [][\A i \in DOMAIN sent' :
          (i > Len(sent) /\ sent'[i].of \in {"SaveLibrary", "TestLibrary"})
            => /\ key'.code = "Enter"
               /\ key'.focused \in {TestButton, SaveButton}]_vars

\* ------------------------------------------------------------------------
\* The pool lock on its own: one configured library, and a user interface
\* that sends only messages whose arm or whose task takes the pool lock.

\* The next thing the task does is conns.lock().await: a search of the
\* stream (src/lib.rs:344), the opening of a found file
\* (src/views/movie_manager/mod.rs:176), the first statement of a write,
\* an artwork or a rename task (src/views/movie_manager/mod.rs:249, 296,
\* 346, 399).
RequestsLock(t) ==
    \/ t.kind = "Scan" /\ t.pc \in {"run", "collect"} /\ Searching(t.nodes) # {}
    \/ t.kind = "Scan" /\ t.pc = "open_nfo" /\ t.rst[t.k].tag = "Ok"
    \/ t.kind \in {"SaveNfo", "WriteNfo", "RetrieveArtworks", "Rename"} /\ t.pc = "run"

\* Task tid needs the pool lock.
TaskNeeds(tid) == tid \in DOMAIN tasks /\ RequestsLock(tasks[tid])

\* Task tid is suspended in conns.lock().await.
TaskWaits(tid) == TaskNeeds(tid) /\ ~LockFree

LockInit ==
    /\ DispInit
    /\ cfg = <<"A">>

LockNext ==
    \/ UserSaveLibrary
    \/ UserEditExisting
    \/ KeyReload
    \/ UserInto
    \/ LoopAwaitLock
    \/ HandleEditExisting
    \/ HandleSaveLibrary
    \/ HandleClosure
    \/ HandleRefreshInline
    \/ HandleIOFuture
    \/ HandleHttpFuture
    \/ TaskStep
    \/ JoinNext

SpecLock == LockInit /\ [][LockNext]_vars /\ Fairness

OkResults == { k \in 1..Len(results) : results[k].tag = "Ok" }

\* C6: a directory holding a .nomedia marker (the root or a subdirectory)
\* contributes no file from itself or from below it, neither yielded nor
\* buffered, and its node starts no child scan, whatever the depth limit.
C6_NoMediaSuppresses ==
    \A m \in Marked(tree) :
        /\ \A k \in OkResults : ~IsPrefix(m, results[k].path.dir)
        /\ \A q \in DOMAIN nodes :
              /\ \A j \in 1..Len(nodes[q].found_path) :
                    ~IsPrefix(m, nodes[q].found_path[j].dir)
              /\ IsPrefix(m, q) => (q = m /\ nodes[q].sub_streams = <<>>)
        /\ (m = <<>> => OkResults = {})

\* A finished scan over a marked subdirectory that holds a video file and a
\* subdirectory with a video file, next to a root with a video file.
C6_Witness ==
    /\ status = "ended"
    /\ limit = 2
    /\ DOMAIN tree = {<<>>, <<1>>, <<1, 1>>}
    /\ tree[<<>>] = "video" /\ tree[<<1>>] = "nomedia" /\ tree[<<1, 1>>] = "video"
    /\ Len(results) = 1

\* C7: every yielded path lies at most `limit` levels below the root, every
\* node lies within the limit and carries the remaining depth; with limit 0
\* only files of the root are yielded and no child scan exists.
C7_DepthBounded ==
    /\ \A k \in OkResults : Len(results[k].path.dir) <= limit
    /\ \A q \in DOMAIN nodes :
          /\ Len(q) <= limit
          /\ nodes[q].depth = limit - Len(q)
          /\ \A j \in 1..Len(nodes[q].found_path) :
                Len(nodes[q].found_path[j].dir) <= limit
    /\ (limit = 0 => DOMAIN nodes = {<<>>})

\* A finished scan with depth 1 of a tree with video files on levels 0, 1, 2.
C7_Witness ==
    /\ status = "ended"
    /\ limit = 1
    /\ DOMAIN tree = {<<>>, <<1>>, <<1, 1>>}
    /\ \A p \in DOMAIN tree : tree[p] = "video"
    /\ Len(results) = 2

\* C8: when every listing succeeds, a scan that has stopped has yielded each
\* qualifying file exactly once and nothing else, and never yields a file
\* twice on the way.
C8_ExactlyOnce ==
    (occ /\ \A p \in DOMAIN tree : tree[p] # "fail") =>
        /\ \A j, k \in OkResults : results[j] = results[k] => j = k
        /\ \A k \in 1..Len(results) : results[k].tag = "Ok"
        /\ { results[k].path : k \in OkResults } \subseteq Qualifying(tree, limit)
        /\ (status # "polling" =>
              { results[k].path : k \in OkResults } = Qualifying(tree, limit))

\* C9: when the listing of the root fails, the stream yields one failure and
\* then ends: nothing else is yielded and the following poll returns None.
C9_RootFailureEndsStream ==
    (tree[<<>>] = "fail" /\ results # <<>>) =>
        /\ results = <<ReadyErr>>
        /\ status \in {"polling", "ended"}

\* C24: a scan reports its end only when the listing of its node is done,
\* its buffer of found files is empty and no child node is left; a child
\* that is still listing or still holds files keeps the scan alive.
C24_EndOnlyWhenExhausted ==
    status = "ended" =>
        /\ nodes[<<>>].search_future = "None"
        /\ nodes[<<>>].found_path = <<>>
        /\ nodes[<<>>].sub_streams = <<>>
        /\ DOMAIN nodes = {<<>>}

\* The subdirectories whose listing fails and which the scan reaches.
FailingBranches ==
    { q \in DOMAIN tree :
        /\ q # <<>>
        /\ tree[q] = "fail"
        /\ Len(q) <= limit
        /\ \A r \in DOMAIN tree : (IsPrefix(r, q) /\ r # q) => tree[r] \notin {"fail", "nomedia"} }

\* C25: a listing failure in a subdirectory ends that branch only. Each
\* failing branch is reported at most once, its node is not polled again (the
\* scan does not die on it), and when the scan ends every qualifying file
\* outside the failing branches has been yielded.
C25_BranchFailureIsolated ==
    (occ /\ tree[<<>>] # "fail" /\ FailingBranches # {}) =>
        /\ status # "panicked"
        /\ Cardinality({ k \in 1..Len(results) : results[k].tag = "Err" })
              <= Cardinality(FailingBranches)
        /\ status = "ended" =>
              { f \in Qualifying(tree, limit) :
                  \A q \in FailingBranches : ~IsPrefix(q, f.dir) }
                \subseteq { results[k].path : k \in OkResults }

\* C26: what a scan yields is a regular file with an extension of the
\* allow-list, never a file without such an extension and never a symlink;
\* and no scan node is created for an entry named `.` or `..`, so that
\* nothing is yielded from below such an entry.
C26_OnlyVideoFilesNoDots ==
    /\ \A k \in OkResults :
          /\ Extension(results[k].path.name) \in VIDEO_EXTENSIONS
          /\ results[k].path.name \notin {"l", "README", "o.txt", ".nomedia"}
          /\ \A j \in DOMAIN results[k].path.dir :
                results[k].path.dir[j] \notin {CurDir, ParentDir}
    /\ \A q \in DOMAIN nodes :
          \A j \in DOMAIN q : q[j] \notin {CurDir, ParentDir}

\* C27: the depth of every scan node lies between 0 and the limit handed to
\* the scan; a child node has a parent node whose depth is greater than 0,
\* and its own depth is the depth of the parent minus 1.
C27_ChildDepth ==
    \A q \in DOMAIN nodes :
        /\ nodes[q].depth \in 0..limit
        /\ q # <<>> =>
              /\ Parent(q) \in DOMAIN nodes
              /\ nodes[Parent(q)].depth > 0
              /\ nodes[q].depth = nodes[Parent(q)].depth - 1

\* A node of depth 0 has listed a directory that has a subdirectory and has
\* started no child scan for it.
C27_Witness ==
    /\ limit = 1
    /\ <<1>> \in DOMAIN nodes
    /\ <<1, 1>> \in DOMAIN tree
    /\ tree[<<1>>] = "video"
    /\ nodes[<<1>>].depth = 0
    /\ nodes[<<1>>].search_future = "None"
    /\ nodes[<<1>>].sub_streams = <<>>

\* C31: whichever searches complete during the next poll of the stream, no
\* pass over the children of a node unwraps an index whose child is gone.
C31_ChildIndexInBounds ==
    status = "polling" =>
        \A ready \in SUBSET Searching(nodes) :
            LET r == PollNext(nodes, tree, occ, <<>>, ready)
            IN  r.res.tag = "Panic" => r.res.at # "sub_streams"

\* C32: a scan that is polled again and again reaches the end of the
\* stream. Stated on finite runs: at every moment the scan has returned
\* None or can still be polled; it never stops in any other way.
C32_ScanReachesEnd == status = "ended" \/ status = "polling"

====
